---- MODULE Spec2Model ----
(***************************************************************************)
(* k-means clustering of (width, height) boxes under the IoU metric, as    *)
(* written in k_means_anchor_size.ipynb: iou, avg_iou and kmeans.          *)
(*                                                                         *)
(* Numbers.  Every width and height is stored in half units (the value 3   *)
(* stands for 1.5), because the median of an even number of integers is a  *)
(* half-integer.  An IoU is the exact fraction <<n, d>> in lowest terms;   *)
(* at the magnitudes explored two float64 quotients are equal exactly when *)
(* the fractions are, and ordered the same way.  NaN and the int64 value   *)
(* -2^63 are kept as the symbols NaN and IntMin.                           *)
(***************************************************************************)
EXTENDS Integers, FiniteSets, Sequences, TLC

\* ------------------------------------------------------------- bounds ----
MaxRows == 3        \* a dataset has 0..MaxRows boxes
MaxDim  == 2        \* a drawn width or height lies in 0..MaxDim
MaxRefs == 2        \* size of the argument arrays of a direct iou / avg_iou call

Scale == 2          \* half units per unit

\* --------------------------------------------------------- the values ----
NaN    == -1        \* float64 nan
IntMin == -2        \* int64 -2^63, what x86-64 stores for int(nan)

NaNFrac == <<0, 0>> \* an IoU (or distance, or mean) that is nan
NoFrac  == <<0, -1>> \* no value returned (yet)

Dims      == {Scale * w : w \in 0..MaxDim}
PosDims   == Dims \ {0}
Box       == Dims \X Dims

\* The dataset of the worked scenario: (100,100),(100,100),(10,10),(10,10).
ScenarioBoxes == [i \in 0..3 |-> IF i < 2 THEN <<Scale * 100, Scale * 100>>
                                          ELSE <<Scale * 10, Scale * 10>>]

RowsOf(a) == DOMAIN a
Len0(a)   == Cardinality(DOMAIN a)

IsPositive(b) == b[1] > 0 /\ b[2] > 0

\* ----------------------------------------------------------- fractions ----
RECURSIVE GCD(_, _)
GCD(a, b) == IF b = 0 THEN a ELSE GCD(b, a % b)

Reduce(n, d) == LET g == GCD(n, d) IN <<n \div g, d \div g>>

IsNaN(f) == f[2] = 0

\* f < g for two fractions with positive denominators
Less(f, g) == f[1] * g[2] < g[1] * f[2]

Add(f, g) ==
  IF IsNaN(f) \/ IsNaN(g) THEN NaNFrac
  ELSE LET l == (f[2] * g[2]) \div GCD(f[2], g[2])
       IN  Reduce(f[1] * (l \div f[2]) + g[1] * (l \div g[2]), l)

\* ------------------------------------------------------------ numpy -------
\* np.minimum: nan propagates; IntMin is below every other int64
minimum(a, b) ==
  IF a = NaN \/ b = NaN THEN NaN
  ELSE IF a = IntMin \/ b = IntMin THEN IntMin
  ELSE IF a < b THEN a ELSE b

\* elementwise product; int64 wraps: (-2^63) * (-2^63) = 2^126 = 0 mod 2^64
times(a, b) ==
  IF a = NaN \/ b = NaN THEN NaN
  ELSE IF a = IntMin /\ b = IntMin THEN 0
  ELSE a * b

\* np.argmin over one row of distances: the first nan if there is one,
\* otherwise the first occurrence of the minimum
argmin(d) ==
  IF \E j \in DOMAIN d : IsNaN(d[j])
    THEN CHOOSE j \in DOMAIN d : IsNaN(d[j]) /\ \A i \in DOMAIN d : IsNaN(d[i]) => j <= i
    ELSE CHOOSE j \in DOMAIN d :
           /\ \A i \in DOMAIN d : ~Less(d[i], d[j])
           /\ \A i \in DOMAIN d : (i < j) => Less(d[j], d[i])

\* the j-th smallest (j = 1..n) of the values v[i], i \in S
KthSmallest(v, S, j) ==
  CHOOSE x \in {v[i] : i \in S} :
    /\ Cardinality({i \in S : v[i] < x}) < j
    /\ Cardinality({i \in S : v[i] <= x}) >= j

\* np.median of the values v[i], i \in S, in half units; nan when S is empty
median(v, S) ==
  LET n == Cardinality(S) IN
  IF n = 0 THEN NaN
  ELSE IF n % 2 = 1 THEN KthSmallest(v, S, (n + 1) \div 2)
  ELSE (KthSmallest(v, S, n \div 2) + KthSmallest(v, S, n \div 2 + 1)) \div 2

\* -------------------------------------------------------------- iou -------
\* variant of IouRaises: only the widths are tested
IouRaises_WidthOnly(box, clusters) ==
  \E c \in DOMAIN clusters : minimum(clusters[c][1], box[1]) = 0

\* line 55: some intersection width or height is exactly zero
IouRaises(box, clusters) ==
  \E c \in DOMAIN clusters :
    \/ minimum(clusters[c][1], box[1]) = 0
    \/ minimum(clusters[c][2], box[2]) = 0

\* variant of iou: the intersection is not subtracted from the union
iou_PlainSum(box, clusters) ==
  [c \in DOMAIN clusters |->
     LET x            == minimum(clusters[c][1], box[1])
         y            == minimum(clusters[c][2], box[2])
         intersection == times(x, y)
         box_area     == box[1] * box[2]
         cluster_area == times(clusters[c][1], clusters[c][2])
     IN  IF intersection = NaN \/ cluster_area = NaN THEN NaNFrac
         ELSE IF box_area + cluster_area = 0 THEN NaNFrac
         ELSE Reduce(intersection, box_area + cluster_area)]

\* lines 53-64, for the calls that do not raise: one IoU per cluster
iou(box, clusters) ==
  [c \in DOMAIN clusters |->
     LET x            == minimum(clusters[c][1], box[1])
         y            == minimum(clusters[c][2], box[2])
         intersection == times(x, y)
         box_area     == box[1] * box[2]
         cluster_area == times(clusters[c][1], clusters[c][2])
     IN  IF intersection = NaN \/ cluster_area = NaN THEN NaNFrac
         ELSE IF box_area + cluster_area - intersection = 0 THEN NaNFrac
         ELSE Reduce(intersection, box_area + cluster_area - intersection)]

\* np.max of one row of IoUs (nan propagates)
MaxOf(v) ==
  IF \E j \in DOMAIN v : IsNaN(v[j]) THEN NaNFrac
  ELSE CHOOSE m \in {v[j] : j \in DOMAIN v} : \A j \in DOMAIN v : ~Less(m, v[j])

RECURSIVE SumTo(_, _)
SumTo(v, n) == IF n = 0 THEN <<0, 1>> ELSE Add(SumTo(v, n - 1), v[n - 1])

\* np.mean of v[0..n-1]; nan for an empty list
Mean(v) ==
  LET n == Len0(v)
      s == SumTo(v, n)
  IN  IF n = 0 \/ IsNaN(s) THEN NaNFrac ELSE Reduce(s[1], s[2] * n)

\* line 73, for the calls in which iou does not raise
avg_iou(bs, clusters) ==
  Mean([i \in DOMAIN bs |-> MaxOf(iou(bs[i], clusters))])

\* variant of Distance: the IoU itself, not its complement
Distance_Similarity(f) == f

\* 1 - iou
Distance(f) == IF IsNaN(f) THEN NaNFrac ELSE <<f[2] - f[1], f[2]>>

\* lines 108-111: the distance matrix and its row-wise argmin
Distances(bs, clusters) ==
  [row \in DOMAIN bs |-> [c \in DOMAIN clusters |-> Distance(iou(bs[row], clusters)[c])]]

Nearest(bs, clusters) ==
  [row \in DOMAIN bs |-> argmin(Distances(bs, clusters)[row])]

Members(near, c) == {row \in DOMAIN near : near[row] = c}

\* the int64 array keeps the integer part of a (positive) median
Truncate(m) == (m \div Scale) * Scale

\* ------------------------------------------------------------ state -------
VARIABLES
  call,              \* the function called: "kmeans" | "iou" | "avg_iou"
  pc,                \* kmeans: "init" | "assign" | "update" | "converged" | "scored" | "error"
                     \* iou, avg_iou: "call" | "returned" | "error"
  boxes,             \* the dataset: row |-> <<width, height>>
  k,                 \* number of clusters asked for
  dtype,             \* "int" | "float": element type of boxes, hence of clusters
  draw,              \* cluster |-> the row np.random.choice picked for it
  clusters,          \* cluster |-> <<width, height>>
  last_clusters,     \* row |-> cluster of the previous assignment
  nearest_clusters,  \* row |-> cluster of the current assignment
  updated,           \* the update loop (lines 116-119) has run at least once
  err,               \* the ValueError that ended the call, "" if none
  iou_,              \* what a direct call of iou returned
  accuracy           \* what avg_iou returned

vars == <<call, pc, boxes, k, dtype, draw, clusters, last_clusters, nearest_clusters,
          updated, err, iou_, accuracy>>

NegativeDimensions == "negative dimensions are not allowed"
LargerSample       == "Cannot take a larger sample than population"
EmptyPopulation    == "a must be non-empty"
EmptyArgmin        == "attempt to get argmin of an empty sequence"
BoxHasNoArea       == "Box has no area"

Datasets == UNION {[0..(r - 1) -> Box] : r \in 0..MaxRows}
Arrays   == UNION {[0..(n - 1) -> Box] : n \in 1..MaxRefs}

\* a call kmeans(boxes, k) about to start
InitKmeans ==
  /\ call = "kmeans"
  /\ pc = "init"
  /\ \/ boxes \in Datasets /\ k \in (-1)..(MaxRows + 1)
     \/ boxes = ScenarioBoxes /\ k = 2
  /\ dtype \in {"int", "float"}
  /\ clusters = <<>>

\* a call iou(boxes[0], clusters) or avg_iou(boxes, clusters) about to start
InitDirect ==
  /\ pc = "call"
  /\ \/ call = "iou" /\ boxes \in [0..0 -> Box]
     \/ call = "avg_iou" /\ boxes \in UNION {[0..(r - 1) -> Box] : r \in 0..MaxRefs}
  /\ clusters \in Arrays
  /\ k = Len0(clusters)
  /\ dtype = "float"

Init ==
  /\ InitKmeans \/ InitDirect
  /\ draw = <<>>
  /\ last_clusters = <<>>
  /\ nearest_clusters = <<>>
  /\ updated = FALSE
  /\ err = ""
  /\ iou_ = <<>>
  /\ accuracy = NoFrac

Raise(e) ==
  /\ pc' = "error"
  /\ err' = e
  /\ UNCHANGED <<call, boxes, k, dtype, draw, clusters, last_clusters, nearest_clusters,
                 updated, iou_, accuracy>>

\* np.random.choice(rows, k, replace=False): k distinct rows, in any order
Draws(rows, n) ==
  {d \in [0..(n - 1) -> 0..(rows - 1)] : \A i, j \in 0..(n - 1) : d[i] = d[j] => i = j}

\* lines 97-105
Initialize ==
  /\ pc = "init"
  /\ LET rows == Len0(boxes) IN
     IF k < 0 THEN Raise(NegativeDimensions)
     ELSE IF rows = 0 /\ k > 0 THEN Raise(EmptyPopulation)
     ELSE IF k > rows THEN Raise(LargerSample)
     ELSE \E d \in Draws(rows, k) :
            /\ draw' = d
            /\ clusters' = [c \in 0..(k - 1) |-> boxes[d[c]]]
            /\ last_clusters' = [row \in 0..(rows - 1) |-> 0]
            /\ pc' = "assign"
            /\ UNCHANGED <<call, boxes, k, dtype, nearest_clusters, updated, err,
                           iou_, accuracy>>

\* variant of Assign: the loop ends as soon as one row keeps its cluster
\* (.any() for .all())
Assign_Any ==
  /\ pc = "assign"
  /\ IF \E row \in DOMAIN boxes : IouRaises(boxes[row], clusters)
       THEN Raise(BoxHasNoArea)
     ELSE IF k = 0 THEN Raise(EmptyArgmin)
     ELSE /\ nearest_clusters' = Nearest(boxes, clusters)
          /\ pc' = IF \E row \in DOMAIN boxes : last_clusters[row] = nearest_clusters'[row]
                     THEN "converged" ELSE "update"
          /\ UNCHANGED <<call, boxes, k, dtype, draw, clusters, last_clusters, updated, err,
                         iou_, accuracy>>

\* lines 108-114
Assign ==
  /\ pc = "assign"
  /\ IF \E row \in DOMAIN boxes : IouRaises(boxes[row], clusters)
       THEN Raise(BoxHasNoArea)
     ELSE IF k = 0 THEN Raise(EmptyArgmin)
     ELSE /\ nearest_clusters' = Nearest(boxes, clusters)
          /\ pc' = IF last_clusters = nearest_clusters' THEN "converged" ELSE "update"
          /\ UNCHANGED <<call, boxes, k, dtype, draw, clusters, last_clusters, updated, err,
                         iou_, accuracy>>

\* What storing nan into an int64 array leaves there: the C cast is undefined,
\* x86-64 gives -2^63 and AArch64 gives 0.  A float64 array keeps the nan.
EmptyOutcomes == IF dtype = "float" THEN {NaN} ELSE {IntMin, 0}

\* lines 116-117 for one cluster and one column
Aggregate(near, c, col, empty) ==
  LET m == median([row \in DOMAIN boxes |-> boxes[row][col]], Members(near, c))
  IN  IF m = NaN THEN empty
      ELSE IF dtype = "int" THEN Truncate(m) ELSE m

\* variant of Update: last_clusters is not refreshed
Update_StaleLast ==
  /\ pc = "update"
  /\ \E empty \in EmptyOutcomes :
       clusters' = [c \in 0..(k - 1) |->
                      <<Aggregate(nearest_clusters, c, 1, empty),
                        Aggregate(nearest_clusters, c, 2, empty)>>]
  /\ updated' = TRUE
  /\ pc' = "assign"
  /\ UNCHANGED <<call, boxes, k, dtype, draw, last_clusters, nearest_clusters, err,
                 iou_, accuracy>>

\* lines 116-119
Update ==
  /\ pc = "update"
  /\ \E empty \in EmptyOutcomes :
       clusters' = [c \in 0..(k - 1) |->
                      <<Aggregate(nearest_clusters, c, 1, empty),
                        Aggregate(nearest_clusters, c, 2, empty)>>]
  /\ last_clusters' = nearest_clusters
  /\ updated' = TRUE
  /\ pc' = "assign"
  /\ UNCHANGED <<call, boxes, k, dtype, draw, nearest_clusters, err, iou_, accuracy>>

\* the notebook's next statement after out = kmeans(data, k): avg_iou(data, out)
Score ==
  /\ pc = "converged"
  /\ IF \E row \in DOMAIN boxes : IouRaises(boxes[row], clusters)
       THEN Raise(BoxHasNoArea)
       ELSE /\ accuracy' = avg_iou(boxes, clusters)
            /\ pc' = "scored"
            /\ UNCHANGED <<call, boxes, k, dtype, draw, clusters, last_clusters,
                           nearest_clusters, updated, err, iou_>>

\* a direct call iou(boxes[0], clusters)
CallIou ==
  /\ call = "iou"
  /\ pc = "call"
  /\ IF IouRaises(boxes[0], clusters)
       THEN Raise(BoxHasNoArea)
       ELSE /\ iou_' = iou(boxes[0], clusters)
            /\ pc' = "returned"
            /\ UNCHANGED <<call, boxes, k, dtype, draw, clusters, last_clusters,
                           nearest_clusters, updated, err, accuracy>>

\* a direct call avg_iou(boxes, clusters)
CallAvgIou ==
  /\ call = "avg_iou"
  /\ pc = "call"
  /\ IF \E row \in DOMAIN boxes : IouRaises(boxes[row], clusters)
       THEN Raise(BoxHasNoArea)
       ELSE /\ accuracy' = avg_iou(boxes, clusters)
            /\ pc' = "returned"
            /\ UNCHANGED <<call, boxes, k, dtype, draw, clusters, last_clusters,
                           nearest_clusters, updated, err, iou_>>

Next == Initialize \/ Assign \/ Update \/ Score \/ CallIou \/ CallAvgIou

Spec == Init /\ [][Next]_vars

\* The calls of kmeans that meet its contract (positive-area boxes,
\* 1 <= k <= r), run to their end: the interpreter never stops inside a call.
ContractInit ==
  /\ Init
  /\ call = "kmeans"
  /\ boxes \in UNION {[0..(r - 1) -> PosDims \X PosDims] : r \in 1..MaxRows}
  /\ k \in 1..Len0(boxes)

KmeansNext == Initialize \/ Assign \/ Update \/ Score

\* A statement of the call is about to run.  Every step of KmeansNext is one
\* (it starts where pc is one of these and changes pc), and one is possible
\* wherever pc is one of these, so fairness on Statement is fairness on
\* KmeansNext.
Statement ==
  /\ pc \in {"init", "assign", "update", "converged"}
  /\ pc' \in {"assign", "update", "converged", "scored", "error"}
  /\ pc' # pc

FairSpec == ContractInit /\ [][KmeansNext]_vars /\ WF_pc(Statement)

TypeOK ==
  /\ call \in {"kmeans", "iou", "avg_iou"}
  /\ pc \in {"init", "assign", "update", "converged", "scored", "error",
             "call", "returned"}
  /\ dtype \in {"int", "float"}
  /\ updated \in BOOLEAN
  /\ DOMAIN nearest_clusters \subseteq DOMAIN boxes

\* ----------------------------------------------------------- claims -------
Rows == Len0(boxes)

PositiveBoxes == \A row \in DOMAIN boxes : IsPositive(boxes[row])

\* a call of kmeans that meets its contract: positive-area boxes, 1 <= k <= r
ValidRun == call = "kmeans" /\ PositiveBoxes /\ 1 <= k /\ k <= Rows

Started == pc \in {"assign", "update", "converged", "scored"}

Converged == call = "kmeans" /\ pc \in {"converged", "scored"}

One == <<1, 1>>

Big   == <<Scale * 100, Scale * 100>>
Small == <<Scale * 10, Scale * 10>>

Scenario == call = "kmeans" /\ boxes = ScenarioBoxes /\ k = 2

C2_OneFullIteration == (ValidRun /\ Converged) => updated

\* C3: with k <= 0, k > r or an empty dataset kmeans never gets to an
\* assignment step: it ends in an error raised by lines 97-105.
C3_FailFast ==
  (call = "kmeans" /\ (k <= 0 \/ k > Rows \/ Rows = 0)) =>
    /\ pc \in {"init", "error"}
    /\ pc = "error" => err \in {NegativeDimensions, EmptyPopulation, LargerSample}

\* C4: in a run on positive-area boxes with 1 <= k <= r the aggregator is
\* never applied to an empty member set, and every centroid has positive
\* width and height.
C4_NoEmptyCluster ==
  ValidRun =>
    /\ pc = "update" => \A c \in 0..(k - 1) : Members(nearest_clusters, c) # {}
    /\ \A c \in DOMAIN clusters : IsPositive(clusters[c])

\* the rows a step passes to iou
RowsPassed == IF call = "iou" THEN {0} ELSE DOMAIN boxes

ZeroIntersection ==
  \E row \in RowsPassed : \E c \in DOMAIN clusters :
    \/ minimum(boxes[row][1], clusters[c][1]) = 0
    \/ minimum(boxes[row][2], clusters[c][2]) = 0

\* C5: a step that calls iou (an assignment step of kmeans, avg_iou after
\* kmeans, a direct call of iou or avg_iou) ends in the error "Box has no
\* area" exactly when some intersection width or height is zero; the call
\* then returns nothing, and nothing runs after an error.
C5_RaisesAndPropagates ==
  [][/\ pc # "error"
     /\ pc \in {"assign", "converged", "call"} =>
          /\ ZeroIntersection <=> (pc' = "error" /\ err' = BoxHasNoArea)
          /\ ZeroIntersection =>
               /\ iou_' = <<>> /\ accuracy' = NoFrac
               /\ clusters' = clusters]_vars

C5_Witness ==
  /\ call = "kmeans" /\ pc = "error" /\ err = BoxHasNoArea
  /\ 1 <= k /\ k <= Rows
  /\ accuracy = NoFrac

Distinct == \A i, j \in DOMAIN boxes : boxes[i] = boxes[j] => i = j

\* C6: with k = r pairwise distinct positive-area boxes every draw ends,
\* without error and after at most one update, with centroid c equal to the
\* box drawn for it and every box assigned to its own centroid; with k > r
\* kmeans ends in the error of np.random.choice.
C6_EachItsOwnBox ==
  /\ (ValidRun /\ k = Rows /\ Distinct) =>
       /\ pc # "error"
       /\ (pc = "assign" /\ (updated \/ Rows = 1)) =>
            Nearest(boxes, clusters) = last_clusters
       /\ Converged =>
            /\ \A c \in 0..(k - 1) : clusters[c] = boxes[draw[c]]
            /\ \A row \in DOMAIN boxes : clusters[nearest_clusters[row]] = boxes[row]
  /\ (call = "kmeans" /\ k > Rows) =>
       /\ pc \in {"init", "error"}
       /\ pc = "error" => err \in {EmptyPopulation, LargerSample}

C6_Witness ==
  /\ ValidRun /\ k = Rows /\ Distinct /\ Rows = MaxRows
  /\ pc = "converged" /\ updated
  /\ \A c \in 0..(k - 1) : clusters[c] = boxes[draw[c]]

\* C7: when kmeans has returned, the assignment step run once more on the
\* returned centroids gives every box the cluster it had in the assignment
\* that the convergence check compared equal.
C7_Idempotent ==
  Converged =>
    /\ Nearest(boxes, clusters) = last_clusters
    /\ Nearest(boxes, clusters) = nearest_clusters

C7_Witness ==
  /\ Converged /\ updated /\ k >= 2
  /\ \E row \in DOMAIN boxes : last_clusters[row] # 0

\* C8: every value iou returns lies in [0, 1], and iou(B, [B]) returns 1 for
\* every positive-area B.
C8_UnitInterval ==
  call = "iou" =>
    /\ pc = "returned" =>
         /\ DOMAIN iou_ = DOMAIN clusters
         /\ \A c \in DOMAIN iou_ :
              iou_[c][2] > 0 /\ 0 <= iou_[c][1] /\ iou_[c][1] <= iou_[c][2]
         /\ \A c \in DOMAIN iou_ : clusters[c] = boxes[0] => iou_[c] = One
    /\ (IsPositive(boxes[0]) /\ clusters = [c \in 0..0 |-> boxes[0]]) => pc # "error"

C8_Witness ==
  /\ call = "iou" /\ pc = "returned"
  /\ Len0(clusters) = 2
  /\ clusters[0] = boxes[0] /\ iou_[0] = One
  /\ iou_[1] # One

\* C9: after an assignment step every box has one cluster in 0..k-1, no
\* centroid is nearer to the box than that one, and no centroid of a lower
\* index is as near.
C9_NearestLowestIndex ==
  (call = "kmeans" /\ pc \in {"update", "converged"}) =>
    /\ DOMAIN nearest_clusters = DOMAIN boxes
    /\ \A row \in DOMAIN boxes :
         LET d == Distances(boxes, clusters)[row]
             n == nearest_clusters[row]
         IN  /\ n \in 0..(k - 1)
             /\ ~IsNaN(d[n])
             /\ \A c \in 0..(k - 1) :
                  /\ ~IsNaN(d[c])
                  /\ ~Less(d[c], d[n])
                  /\ (c < n) => Less(d[n], d[c])

\* C10: a run of kmeans on positive-area boxes with 1 <= k <= r eventually
\* reaches Converged: the assignment mappings do not cycle forever.  (A run
\* that ends in an error is let through here, so that only a loop that never
\* ends violates the formula.)
C10_Terminates == ValidRun ~> (Converged \/ pc = "error")

====
